---- MODULE Spec2Model ----
(***************************************************************************)
(* Model of app.py: the translate_text resolver (Google first, Libre as    *)
(* fallback), translate_dataframe, and the Streamlit script's handlers.    *)
(*                                                                         *)
(* A Python str is a sequence of symbols.  Single characters are symbols;  *)
(* the fixed pieces of a literal (an f-string's constant parts, a column   *)
(* suffix) are one symbol each.                                            *)
(***************************************************************************)
EXTENDS Integers, Sequences, FiniteSets, TLC

VARIABLES
    pc,             \* where the running script (or a direct caller) stands
    tt,             \* the frame of the running translate_text call
    calls,          \* the backend attempts made by that call, in order
    dfj,            \* the frame of the running translate_dataframe call
    session_state,  \* st.session_state: a dict that may lack the key "history"
    widgets,        \* the widget values of the current script run
    download,       \* what "Download latest translation" offers in this run
    sinceClear      \* history entries created since the last clear, oldest first

vars == <<pc, tt, calls, dfj, session_state, widgets, download, sinceClear>>

----------------------------------------------------------------------------
(* Bounds of the model *)

MaxLen == 1
MaxRows == 2
MaxHistory == 2
MaxUIHistory == 1

----------------------------------------------------------------------------
(* Strings *)

Whitespace == {" "}
Alphabet == {"a", " "}

RECURSIVE SeqsUpTo(_, _)
SeqsUpTo(S, n) ==
    IF n = 0 THEN {<<>>}
    ELSE LET shorter == SeqsUpTo(S, n - 1)
         IN  shorter \cup {Append(s, c) : s \in shorter, c \in S}

Texts == SeqsUpTo(Alphabet, MaxLen)

Range(s) == {s[i] : i \in 1..Len(s)}

\* Python truthiness of a str: "not text" is true of the empty string only.
Falsy(text) == Len(text) = 0

\* str.strip(): leading and trailing whitespace removed.
RECURSIVE LStrip(_)
LStrip(s) ==
    IF s # <<>> /\ Head(s) \in Whitespace THEN LStrip(Tail(s)) ELSE s

RECURSIVE RStrip(_)
RStrip(s) ==
    IF s # <<>> /\ s[Len(s)] \in Whitespace
    THEN RStrip(SubSeq(s, 1, Len(s) - 1))
    ELSE s

Strip(s) == RStrip(LStrip(s))

\* s occurs in t as a contiguous piece.
Contains(t, s) ==
    \E i \in 0..(Len(t) - Len(s)) : SubSeq(t, i + 1, i + Len(s)) = s

Reverse(s) == [i \in 1..Len(s) |-> s[Len(s) + 1 - i]]

----------------------------------------------------------------------------
(* LANGS: display name -> code, in the dict's insertion order *)

LangItems ==
    << <<"Auto-detect", "auto">>, <<"English", "en">>, <<"Urdu", "ur">>,
       <<"Arabic", "ar">>, <<"Bengali", "bn">>,
       <<"Chinese (Simplified)", "zh-CN">>, <<"Chinese (Traditional)", "zh-TW">>,
       <<"French", "fr">>, <<"German", "de">>, <<"Hindi", "hi">>,
       <<"Indonesian", "id">>, <<"Italian", "it">>, <<"Japanese", "ja">>,
       <<"Korean", "ko">>, <<"Malay", "ms">>, <<"Persian (Farsi)", "fa">>,
       <<"Portuguese", "pt">>, <<"Russian", "ru">>, <<"Spanish", "es">>,
       <<"Turkish", "tr">>, <<"Vietnamese", "vi">> >>

\* list(LANGS.keys())
LangKeys == [i \in 1..Len(LangItems) |-> LangItems[i][1]]

\* LANGS[name]
LANGS(name) ==
    LangItems[CHOOSE i \in 1..Len(LangItems) : LangItems[i][1] = name][2]

IsNotAutoDetect(k) == k # "Auto-detect"

SourceOptions == LangKeys

TargetOptionsWithAuto == LangKeys

\* [k for k in LANGS.keys() if k != "Auto-detect"]
TargetOptions == SelectSeq(LangKeys, IsNotAutoDetect)

\* The names the modelled user picks; a selector offers only its own options.
UserPicks == {"Auto-detect", "English", "Urdu"}

SourceChoices == Range(SourceOptions) \cap UserPicks
TargetChoices == Range(TargetOptions) \cap UserPicks

\* The codes a direct caller of translate_text passes (tgt is not validated).
Codes == {LANGS(n) : n \in UserPicks}

----------------------------------------------------------------------------
(* The two backends (deep_translator): each attempt constructs a client    *)
(* and calls translate; either may raise, with a description str(e).       *)

GoogleOutcomes ==
    { [kind |-> "ctor_raise", val |-> <<"q">>],
      [kind |-> "translate_raise", val |-> <<"q">>],
      [kind |-> "ok", val |-> <<" ", "g">>] }

LibreOutcomes ==
    { [kind |-> "ctor_raise", val |-> <<"n">>],
      [kind |-> "translate_raise", val |-> <<"n">>],
      [kind |-> "ok", val |-> <<"l", " ">>] }

\* source=src if src != "auto" else "auto"
BackendSource(src) == IF src # "auto" THEN src ELSE "auto"

Attempt(backend, src, tgt, text, o) ==
    [backend |-> backend, source |-> BackendSource(src), target |-> tgt,
     text |-> text, outcome |-> o]

\* f"[Translation failed: {e} | fallback failed: {e2}]"
ErrorMarkerNoPrimary(e, e2) ==
    <<"[Translation failed: ">> \o e2 \o <<"]">>

ErrorMarker(e, e2) ==
    <<"[Translation failed: ">> \o e \o <<" | fallback failed: ">> \o e2 \o <<"]">>

----------------------------------------------------------------------------
(* translate_text *)

NoTT == [pc |-> "none", text |-> <<>>, src |-> "", tgt |-> "",
         e |-> <<>>, ret |-> <<>>]

\* The frame on entry to translate_text(text, src, tgt).
EnterTT(text, src, tgt) ==
    [pc |-> "entry", text |-> text, src |-> src, tgt |-> tgt,
     e |-> <<>>, ret |-> <<>>]

\* if not text: return ""
TT_Guard ==
    /\ tt.pc = "entry"
    /\ IF Falsy(tt.text)
       THEN tt' = [tt EXCEPT !.pc = "returned", !.ret = <<>>]
       ELSE tt' = [tt EXCEPT !.pc = "google"]
    /\ UNCHANGED <<pc, calls, dfj, session_state, widgets, download, sinceClear>>

\* A primary attempt whose result is dropped: control reaches the fallback anyway.
TT_GoogleFallsThrough ==
    /\ tt.pc = "google"
    /\ \E o \in GoogleOutcomes :
        /\ calls' = Append(calls, Attempt("Google", tt.src, tt.tgt, tt.text, o))
        /\ tt' = [tt EXCEPT !.pc = "libre", !.e = o.val]
    /\ UNCHANGED <<pc, dfj, session_state, widgets, download, sinceClear>>

\* A primary attempt that is repeated once after a failure.
TT_GoogleRetries ==
    /\ tt.pc = "google"
    /\ \E o \in GoogleOutcomes :
        /\ calls' = Append(calls, Attempt("Google", tt.src, tt.tgt, tt.text, o))
        /\ IF o.kind = "ok"
           THEN tt' = [tt EXCEPT !.pc = "returned", !.ret = o.val]
           ELSE tt' = [tt EXCEPT !.pc = IF calls = <<>> THEN "google" ELSE "libre",
                                 !.e = o.val]
    /\ UNCHANGED <<pc, dfj, session_state, widgets, download, sinceClear>>

\* try: GoogleTranslator(source=..., target=tgt).translate(text)
TT_Google ==
    /\ tt.pc = "google"
    /\ \E o \in GoogleOutcomes :
        /\ calls' = Append(calls, Attempt("Google", tt.src, tt.tgt, tt.text, o))
        /\ IF o.kind = "ok"
           THEN tt' = [tt EXCEPT !.pc = "returned", !.ret = o.val]
           ELSE tt' = [tt EXCEPT !.pc = "libre", !.e = o.val]
    /\ UNCHANGED <<pc, dfj, session_state, widgets, download, sinceClear>>

\* A fallback whose successful result is reported together with the primary error.
TT_LibreLeaksPrimary ==
    /\ tt.pc = "libre"
    /\ \E o \in LibreOutcomes :
        /\ calls' = Append(calls, Attempt("Libre", tt.src, tt.tgt, tt.text, o))
        /\ IF o.kind = "ok"
           THEN tt' = [tt EXCEPT !.pc = "returned", !.ret = tt.e \o o.val]
           ELSE tt' = [tt EXCEPT !.pc = "returned",
                                 !.ret = ErrorMarker(tt.e, o.val)]
    /\ UNCHANGED <<pc, dfj, session_state, widgets, download, sinceClear>>

\* except Exception as e: try: LibreTranslator(...).translate(text)
\* except Exception as e2: return the error marker
TT_Libre ==
    /\ tt.pc = "libre"
    /\ \E o \in LibreOutcomes :
        /\ calls' = Append(calls, Attempt("Libre", tt.src, tt.tgt, tt.text, o))
        /\ IF o.kind = "ok"
           THEN tt' = [tt EXCEPT !.pc = "returned", !.ret = o.val]
           ELSE tt' = [tt EXCEPT !.pc = "returned",
                                 !.ret = ErrorMarker(tt.e, o.val)]
    /\ UNCHANGED <<pc, dfj, session_state, widgets, download, sinceClear>>

----------------------------------------------------------------------------
(* Tables (pandas DataFrame): ordered column names, each with its cells.   *)
(* A cell of a text column is a str or is missing (NaN).                   *)

Str(s) == [kind |-> "str", s |-> s]
NaN == [kind |-> "nan", s |-> <<>>]

CellValues == {NaN, Str(<<>>), Str(<<"a">>), Str(<<" ">>)}

MkTable(cols, data) == [cols |-> cols, data |-> data]

NumRows(t) == IF t.cols = <<>> THEN 0 ELSE Len(t.data[t.cols[1]])

\* f"{column}_translated"
TranslatedName(column) == column \o <<"_translated">>

ColC == <<"c">>
ExtraNames == {<<"d">>, TranslatedName(ColC)}
Filler(n) == [i \in 1..n |-> Str(<<"x">>)]

TablesOfRows(n) ==
    LET columns == [1..n -> CellValues]
    IN  {MkTable(<<ColC>>, [k \in {ColC} |-> cv]) : cv \in columns}
        \cup {MkTable(<<ColC, x>>,
                      [k \in {ColC, x} |-> IF k = ColC THEN cv ELSE Filler(n)]) :
                cv \in columns, x \in ExtraNames}
        \cup {MkTable(<<x, ColC>>,
                      [k \in {ColC, x} |-> IF k = ColC THEN cv ELSE Filler(n)]) :
                cv \in columns, x \in ExtraNames}

Tables == UNION {TablesOfRows(n) : n \in 0..MaxRows}

\* Series.astype(str): a str stays; a missing value becomes the text "nan",
\* or stays missing where the installed pandas maps str to its string dtype.
AsTypeStr(v, keepsNA) ==
    IF v.kind = "str" THEN v
    ELSE IF keepsNA THEN NaN ELSE Str(<<"n", "a", "n">>)

\* Series.fillna(""): only a value that is still missing is replaced.
FillNa(v, fill) == IF v.kind = "nan" THEN Str(fill) ELSE v

\* out[column].astype(str).fillna(""), as the loop iterates it
ColumnStrings(t, column, keepsNA) ==
    [i \in 1..Len(t.data[column]) |->
        FillNa(AsTypeStr(t.data[column][i], keepsNA), <<>>).s]

\* t[name] = values: replaces the column of that name, or adds it last.
SetColumn(t, name, values) ==
    IF name \in Range(t.cols)
    THEN [t EXCEPT !.data[name] = values]
    ELSE MkTable(Append(t.cols, name),
                 [k \in Range(t.cols) \cup {name} |->
                    IF k = name THEN values ELSE t.data[k]])

----------------------------------------------------------------------------
(* translate_dataframe *)

NoDF == [pc |-> "none"]

\* out = df.copy(); translated = []; the loop's iterable is evaluated.
\* df0 records the caller's table as it was passed.
EnterDF(df, column, src, tgt, keepsNA) ==
    [pc |-> "loop", df0 |-> df, df |-> df, out |-> df, column |-> column,
     src |-> src, tgt |-> tgt, vals |-> ColumnStrings(df, column, keepsNA),
     i |-> 1, translated |-> <<>>, rowlog |-> <<>>]

\* for val in ...: translate_text(val, src, tgt) is entered
DF_Call ==
    /\ dfj.pc = "loop"
    /\ dfj.i <= Len(dfj.vals)
    /\ tt' = EnterTT(dfj.vals[dfj.i], dfj.src, dfj.tgt)
    /\ calls' = <<>>
    /\ dfj' = [dfj EXCEPT !.pc = "call"]
    /\ UNCHANGED <<pc, session_state, widgets, download, sinceClear>>

\* A loop body that puts each result in front of the earlier ones.
DF_AppendInFront ==
    /\ dfj.pc = "call"
    /\ tt.pc = "returned"
    /\ dfj' = [dfj EXCEPT !.pc = "loop", !.i = @ + 1,
                          !.translated = <<tt.ret>> \o @,
                          !.rowlog = Append(@, [text |-> tt.text, src |-> tt.src,
                                                tgt |-> tt.tgt, ret |-> tt.ret,
                                                calls |-> calls])]
    /\ tt' = NoTT
    /\ calls' = <<>>
    /\ UNCHANGED <<pc, session_state, widgets, download, sinceClear>>

\* translated.append(<the call's return value>); rowlog records the call.
DF_Append ==
    /\ dfj.pc = "call"
    /\ tt.pc = "returned"
    /\ dfj' = [dfj EXCEPT !.pc = "loop", !.i = @ + 1,
                          !.translated = Append(@, tt.ret),
                          !.rowlog = Append(@, [text |-> tt.text, src |-> tt.src,
                                                tgt |-> tt.tgt, ret |-> tt.ret,
                                                calls |-> calls])]
    /\ tt' = NoTT
    /\ calls' = <<>>
    /\ UNCHANGED <<pc, session_state, widgets, download, sinceClear>>

\* out[f"{column}_translated"] = translated; return out
DF_Finish ==
    /\ dfj.pc = "loop"
    /\ dfj.i > Len(dfj.vals)
    /\ dfj' = [dfj EXCEPT !.pc = "done",
                          !.out = SetColumn(@, TranslatedName(dfj.column),
                                            dfj.translated)]
    /\ UNCHANGED <<pc, tt, calls, session_state, widgets, download, sinceClear>>

----------------------------------------------------------------------------
(* The Streamlit script: every user interaction reruns it top to bottom.   *)

NoWidgets == [src_lang_name |-> "", tgt_lang_name |-> "", input_text |-> <<>>]
EmptyDict == [k \in {} |-> <<>>]
NoDownload == [latest |-> <<>>]

\* What the user types, and what the uploaded .txt file holds.
UITexts == {<<>>, <<" ">>, <<"a">>}
UIFileTexts == {<<" ">>, <<"a">>}

\* The uploaded .csv files, as pd.read_csv returns them.
UITables ==
    { MkTable(<<ColC>>, [k \in {ColC} |-> <<Str(<<"a">>)>>]),
      MkTable(<<<<"d">>, ColC>>,
              [k \in {<<"d">>, ColC} |->
                    IF k = ColC THEN <<Str(<<" ">>)>> ELSE <<NaN>>]) }

\* st.session_state.get("history", [])
GetHistory(ss) == IF "history" \in DOMAIN ss THEN ss["history"] ELSE <<>>

\* st.session_state["history"] = hist
SetHistory(ss, hist) == [k \in DOMAIN ss \cup {"history"} |-> hist]

\* A history that gets each new entry at its end.
HistInsertLast(hist, entry) == Append(hist, entry)

\* hist.insert(0, entry)
HistInsert(hist, entry) == <<entry>> \o hist

\* if "history" not in st.session_state: st.session_state["history"] = []
EnsureHistory(ss) == IF "history" \in DOMAIN ss THEN ss ELSE SetHistory(ss, <<>>)

\* if st.session_state["history"]: the first entry's text is offered
LatestDownload(ss) ==
    IF GetHistory(ss) # <<>> THEN <<GetHistory(ss)[1].translated>> ELSE <<>>

\* The dtype pandas gives a column: text cells make it object; a column of
\* missing values only is float64.
Dtype(cells) ==
    IF cells = <<>> \/ \E i \in 1..Len(cells) : cells[i].kind = "str"
    THEN "object" ELSE "float64"

\* [c for c in df.columns if df[c].dtype == "object" or df[c].dtype == "string"]
TextCols(df) ==
    LET IsText(c) == Dtype(df.data[c]) \in {"object", "string"}
    IN  SelectSeq(df.cols, IsText)

Sidebar(srcName, tgtName, text) ==
    [src_lang_name |-> srcName, tgt_lang_name |-> tgtName, input_text |-> text]

\* The first run of a session: nothing is clicked, the selectors hold their
\* defaults (index=0 of the source options, index=1 of the target options).
PageLoad ==
    /\ pc = "fresh"
    /\ widgets' = Sidebar(SourceOptions[1], TargetOptions[2], <<>>)
    /\ session_state' = EnsureHistory(session_state)
    /\ download' = [NoDownload EXCEPT !.latest = LatestDownload(session_state')]
    /\ pc' = "idle"
    /\ UNCHANGED <<tt, calls, dfj, sinceClear>>

\* "Translate" clicked with blank input: a warning, then the rest of the script.
ClickTranslateBlank ==
    /\ pc = "idle"
    /\ \E text \in UITexts, s \in SourceChoices, t \in TargetChoices :
        /\ Strip(text) = <<>>
        /\ widgets' = Sidebar(s, t, text)
    /\ session_state' = EnsureHistory(session_state)
    /\ download' = [NoDownload EXCEPT !.latest = LatestDownload(session_state')]
    /\ UNCHANGED <<pc, tt, calls, dfj, sinceClear>>

\* "Translate" clicked with text: translate_text(input_text, src_code, tgt_code)
ClickTranslate(maxHist) ==
    /\ pc = "idle"
    /\ Len(GetHistory(session_state)) < maxHist
    /\ \E text \in UITexts, s \in SourceChoices, t \in TargetChoices :
        /\ Strip(text) # <<>>
        /\ widgets' = Sidebar(s, t, text)
        /\ tt' = EnterTT(text, LANGS(s), LANGS(t))
    /\ calls' = <<>>
    /\ download' = NoDownload
    /\ pc' = "translate"
    /\ UNCHANGED <<dfj, session_state, sinceClear>>

\* The call returned: the entry is put into the history, then the rest of the
\* script runs.  sinceClear notes the entry and whether a backend translated.
TranslateDone ==
    /\ pc = "translate"
    /\ tt.pc = "returned"
    /\ LET entry == [source |-> widgets.input_text, translated |-> tt.ret,
                     src |-> widgets.src_lang_name, tgt |-> widgets.tgt_lang_name]
           hist == HistInsert(GetHistory(session_state), entry)
       IN  /\ session_state' = SetHistory(session_state, hist)
           /\ sinceClear' =
                Append(sinceClear,
                       [entry |-> entry,
                        ok |-> calls # <<>> /\ calls[Len(calls)].outcome.kind = "ok"])
    /\ download' = [NoDownload EXCEPT !.latest = LatestDownload(session_state')]
    /\ pc' = "idle"
    /\ tt' = NoTT
    /\ calls' = <<>>
    /\ UNCHANGED <<dfj, widgets>>

\* "Clear history" clicked
ClickClear ==
    /\ pc = "idle"
    /\ \E s \in SourceChoices, t \in TargetChoices :
        widgets' = Sidebar(s, t, widgets.input_text)
    /\ session_state' = SetHistory(EnsureHistory(session_state), <<>>)
    /\ download' = [NoDownload EXCEPT !.latest = LatestDownload(session_state')]
    /\ sinceClear' = <<>>
    /\ UNCHANGED <<pc, tt, calls, dfj>>

\* "Translate text file" clicked on an uploaded .txt file
ClickTranslateTextFile ==
    /\ pc = "idle"
    /\ \E raw \in UIFileTexts, s \in SourceChoices, t \in TargetChoices :
        /\ widgets' = Sidebar(s, t, widgets.input_text)
        /\ tt' = EnterTT(raw, LANGS(s), LANGS(t))
    /\ calls' = <<>>
    /\ session_state' = EnsureHistory(session_state)
    /\ download' = [NoDownload EXCEPT !.latest = LatestDownload(session_state')]
    /\ pc' = "txtfile"
    /\ UNCHANGED <<dfj, sinceClear>>

\* The call returned: its result is only shown (a download button of its own).
TextFileDone ==
    /\ pc = "txtfile"
    /\ tt.pc = "returned"
    /\ pc' = "idle"
    /\ tt' = NoTT
    /\ calls' = <<>>
    /\ UNCHANGED <<dfj, session_state, widgets, download, sinceClear>>

\* "Translate column" clicked on an uploaded .csv file
ClickTranslateColumn ==
    /\ pc = "idle"
    /\ \E df \in UITables, s \in SourceChoices, t \in TargetChoices,
          keepsNA \in BOOLEAN :
        /\ TextCols(df) # <<>>
        /\ \E col_to_translate \in Range(TextCols(df)) :
            dfj' = EnterDF(df, col_to_translate, LANGS(s), LANGS(t), keepsNA)
        /\ widgets' = Sidebar(s, t, widgets.input_text)
    /\ session_state' = EnsureHistory(session_state)
    /\ download' = [NoDownload EXCEPT !.latest = LatestDownload(session_state')]
    /\ pc' = "csv"
    /\ UNCHANGED <<tt, calls, sinceClear>>

\* translate_dataframe returned: out_df is only shown and offered as CSV.
ColumnDone ==
    /\ pc = "csv"
    /\ dfj.pc = "done"
    /\ pc' = "idle"
    /\ dfj' = NoDF
    /\ UNCHANGED <<tt, calls, session_state, widgets, download, sinceClear>>

----------------------------------------------------------------------------
(* A direct caller of translate_text *)

CallTranslateText ==
    /\ pc = "idle"
    /\ \E text \in Texts, src \in Codes, tgt \in Codes :
        tt' = EnterTT(text, src, tgt)
    /\ pc' = "direct"
    /\ calls' = <<>>
    /\ UNCHANGED <<dfj, session_state, widgets, download, sinceClear>>

ReturnTranslateText ==
    /\ pc = "direct"
    /\ tt.pc = "returned"
    /\ pc' = "idle"
    /\ tt' = NoTT
    /\ calls' = <<>>
    /\ UNCHANGED <<dfj, session_state, widgets, download, sinceClear>>

Init ==
    /\ pc = "idle"
    /\ tt = NoTT
    /\ calls = <<>>
    /\ dfj = NoDF
    /\ session_state = EmptyDict
    /\ widgets = NoWidgets
    /\ download = NoDownload
    /\ sinceClear = <<>>

\* A new browser session: the script has not run yet.
InitUI ==
    /\ pc = "fresh"
    /\ tt = NoTT
    /\ calls = <<>>
    /\ dfj = NoDF
    /\ session_state = EmptyDict
    /\ widgets = NoWidgets
    /\ download = NoDownload
    /\ sinceClear = <<>>

\* The language pairs a direct caller of translate_dataframe passes.
TablePairs == {<<"auto", "ur">>, <<"en", "auto">>}

CallTranslateDataframe ==
    /\ pc = "idle"
    /\ \E df \in Tables, keepsNA \in BOOLEAN, p \in TablePairs :
        \E column \in Range(df.cols) :
            dfj' = EnterDF(df, column, p[1], p[2], keepsNA)
    /\ pc' = "dfdirect"
    /\ UNCHANGED <<tt, calls, session_state, widgets, download, sinceClear>>

ReturnTranslateDataframe ==
    /\ pc = "dfdirect"
    /\ dfj.pc = "done"
    /\ pc' = "idle"
    /\ dfj' = NoDF
    /\ UNCHANGED <<tt, calls, session_state, widgets, download, sinceClear>>

NextResolve ==
    \/ CallTranslateText
    \/ TT_Guard
    \/ TT_Google
    \/ TT_Libre
    \/ ReturnTranslateText

SpecResolve == Init /\ [][NextResolve]_vars

NextTable ==
    \/ CallTranslateDataframe
    \/ DF_Call
    \/ TT_Guard
    \/ TT_Google
    \/ TT_Libre
    \/ DF_Append
    \/ DF_Finish
    \/ ReturnTranslateDataframe

SpecTable == Init /\ [][NextTable]_vars

NextHistory ==
    \/ PageLoad
    \/ ClickTranslateBlank
    \/ ClickTranslate(MaxHistory)
    \/ TT_Guard
    \/ TT_Google
    \/ TT_Libre
    \/ TranslateDone
    \/ ClickClear

SpecHistory == InitUI /\ [][NextHistory]_vars

NextUI ==
    \/ PageLoad
    \/ ClickTranslateBlank
    \/ ClickTranslate(MaxUIHistory)
    \/ TranslateDone
    \/ ClickClear
    \/ ClickTranslateTextFile
    \/ TextFileDone
    \/ ClickTranslateColumn
    \/ ColumnDone
    \/ TT_Guard
    \/ TT_Google
    \/ TT_Libre
    \/ DF_Call
    \/ DF_Append
    \/ DF_Finish

SpecUI == InitUI /\ [][NextUI]_vars

----------------------------------------------------------------------------
(* Claims about translate_text, checked under SpecResolve *)

InCall == tt.pc # "none"
Returned == tt.pc = "returned"
Failed(a) == a.outcome.kind # "ok"
Blank(text) == Strip(text) = <<>>
GoogleAttempts == {i \in 1..Len(calls) : calls[i].backend = "Google"}
LibreAttempts == {i \in 1..Len(calls) : calls[i].backend = "Libre"}
BothFailed == Len(calls) = 2 /\ Failed(calls[1]) /\ Failed(calls[2])

\* C1: for every empty or whitespace-only text, translate_text returns the
\* empty string and attempts neither backend.
C1_BlankTextNoBackend ==
    (InCall /\ Blank(tt.text)) =>
        /\ calls = <<>>
        /\ Returned => tt.ret = <<>>

\* C2: when the primary and the fallback attempt both fail (constructing the
\* client or translating), the call still returns, and what it returns is a
\* non-empty string holding the primary failure's description after the
\* primary label and the fallback failure's description after the fallback label.
C2_BothFailMarker ==
    (InCall /\ BothFailed) =>
        /\ Returned
        /\ tt.ret # <<>>
        /\ Contains(tt.ret, <<"[Translation failed: ">> \o calls[1].outcome.val)
        /\ Contains(tt.ret, <<" | fallback failed: ">> \o calls[2].outcome.val)

C2_Witness ==
    /\ pc = "direct" /\ Returned /\ BothFailed /\ ~Falsy(tt.text)
    /\ calls[1].outcome.kind = "ctor_raise"
    /\ calls[2].outcome.kind = "translate_raise"
    /\ tt.ret = <<"[Translation failed: ", "q", " | fallback failed: ", "n", "]">>

\* C3: when the primary attempt succeeds, the call returns exactly the primary
\* backend's output and the fallback is neither constructed nor called.
C3_PrimarySuccess ==
    (InCall /\ calls # <<>> /\ ~Failed(calls[1])) =>
        /\ Returned
        /\ tt.ret = calls[1].outcome.val
        /\ LibreAttempts = {}

C3_Witness ==
    /\ pc = "direct" /\ Returned /\ Len(calls) = 1
    /\ calls[1].backend = "Google" /\ ~Failed(calls[1])
    /\ tt.ret = <<" ", "g">>

\* C4: when the primary attempt fails and the fallback succeeds, the call
\* returns exactly the fallback's output: neither the primary error's
\* description nor any failure label is in the result.
C4_FallbackSuccess ==
    (InCall /\ Len(calls) = 2 /\ Failed(calls[1]) /\ ~Failed(calls[2])) =>
        /\ Returned
        /\ tt.ret = calls[2].outcome.val
        /\ ~Contains(tt.ret, calls[1].outcome.val)
        /\ ~Contains(tt.ret, <<"[Translation failed: ">>)

C4_Witness ==
    /\ pc = "direct" /\ Returned /\ Len(calls) = 2
    /\ Failed(calls[1]) /\ calls[2].backend = "Libre" /\ ~Failed(calls[2])
    /\ tt.ret = <<"l", " ">>

\* C9: within one call each backend is attempted at most once, the primary
\* attempt comes first, the fallback is attempted only after a failed primary
\* attempt, and the fallback gets the text, source code and target code the
\* primary got, which are the call's own arguments ("auto" included).
C9_SingleAttemptOrder ==
    InCall =>
        /\ Cardinality(GoogleAttempts) <= 1
        /\ Cardinality(LibreAttempts) <= 1
        /\ \A i \in LibreAttempts :
            /\ i = 2
            /\ calls[1].backend = "Google" /\ Failed(calls[1])
            /\ calls[i].text = calls[1].text
            /\ calls[i].source = calls[1].source
            /\ calls[i].target = calls[1].target
        /\ \A i \in 1..Len(calls) :
            /\ calls[i].text = tt.text
            /\ calls[i].source = tt.src
            /\ calls[i].target = tt.tgt
        /\ (tt.pc = "libre") => (Len(calls) = 1 /\ Failed(calls[1]))

C9_Witness ==
    /\ pc = "direct" /\ Returned /\ Len(calls) = 2
    /\ tt.src = "auto" /\ calls[2].source = "auto" /\ calls[2].backend = "Libre"

----------------------------------------------------------------------------
(* Claims about translate_dataframe, checked under SpecTable *)

DFDone == dfj.pc = "done"
NewColumn == TranslatedName(dfj.column)
Missing(v) == v.kind = "nan"

\* C5: the returned table has the input's rows, in the input's order, and in
\* every row i the new column holds what translate_text returned when called
\* with the string form of the input's cell i of the chosen column (a str as
\* it is; a missing value as pandas renders it) and the job's language pair.
C5_RowsPreserved ==
    DFDone =>
        LET in == dfj.df0.data[dfj.column]
            new == dfj.out.data[NewColumn]
        IN  /\ NumRows(dfj.out) = NumRows(dfj.df0)
            /\ \A k \in Range(dfj.out.cols) : Len(dfj.out.data[k]) = Len(in)
            /\ \A k \in Range(dfj.df0.cols) \ {NewColumn} :
                    dfj.out.data[k] = dfj.df0.data[k]
            /\ Len(dfj.rowlog) = Len(in)
            /\ \A i \in 1..Len(in) :
                /\ new[i] = dfj.rowlog[i].ret
                /\ dfj.rowlog[i].src = dfj.src
                /\ dfj.rowlog[i].tgt = dfj.tgt
                /\ in[i].kind = "str" => dfj.rowlog[i].text = in[i].s
                /\ Missing(in[i]) =>
                        dfj.rowlog[i].text \in {<<>>, <<"n", "a", "n">>}

C5_Witness ==
    /\ DFDone
    /\ dfj.df0.cols = <<ColC>>
    /\ dfj.df0.data[ColC] = <<Str(<<"a">>), Str(<<>>)>>
    /\ dfj.out.data[NewColumn] = <<<<"l", " ">>, <<>>>>
    /\ Len(dfj.rowlog[1].calls) = 2

\* C6: a row whose cell in the chosen column is missing is treated as the
\* empty string: its new-column value is empty and no backend is attempted.
C6_MissingIsEmpty ==
    DFDone =>
        \A i \in 1..Len(dfj.df0.data[dfj.column]) :
            Missing(dfj.df0.data[dfj.column][i]) =>
                /\ dfj.out.data[NewColumn][i] = <<>>
                /\ dfj.rowlog[i].calls = <<>>

\* C7: the returned table is the input with exactly one more column, named
\* "<column>_translated": every input column is in it with its values (also
\* when the input already has a column of that name), and the caller's table
\* is as it was passed.
C7_OneMoreColumn ==
    DFDone =>
        /\ dfj.out.cols = Append(dfj.df0.cols, NewColumn)
        /\ \A k \in Range(dfj.df0.cols) : dfj.out.data[k] = dfj.df0.data[k]
        /\ dfj.df = dfj.df0

----------------------------------------------------------------------------
(* Claims about the session history, checked under SpecHistory *)

History == GetHistory(session_state)
EntriesOf(log) == [i \in 1..Len(log) |-> log[i].entry]
Translated(x) == x.ok
NewestCreated == sinceClear[Len(sinceClear)].entry

\* C8 as stated: the history is, newest first, the entries created since the
\* last clear by the translate actions whose translation succeeded, and the
\* download offers the newest one.
C8_HistoryOfSuccessful ==
    /\ History = Reverse(EntriesOf(SelectSeq(sinceClear, Translated)))
    /\ (pc = "idle" /\ History # <<>>) => download.latest = <<History[1].translated>>

\* C8 as amended: the history is, newest first, the entries created since the
\* last clear by the translate actions on non-blank input, one per action,
\* whether a backend translated the text or translate_text returned its error
\* marker; the download offers the newest entry's text, and nothing when the
\* history is empty, as it is after a clear.
C8_HistoryOfAllTranslations ==
    /\ History = Reverse(EntriesOf(sinceClear))
    /\ \A i \in 1..Len(History) : Strip(History[i].source) # <<>>
    /\ pc = "idle" =>
        download.latest =
            IF sinceClear = <<>> THEN <<>> ELSE <<NewestCreated.translated>>

C8_Witness ==
    /\ pc = "idle"
    /\ Len(History) = 2
    /\ History[1].translated =
            <<"[Translation failed: ", "q", " | fallback failed: ", "n", "]">>
    /\ History[2].translated = <<" ", "g">>
    /\ ~sinceClear[2].ok /\ sinceClear[1].ok
    /\ download.latest = <<History[1].translated>>

----------------------------------------------------------------------------
(* Claim about the target selector, checked under SpecUI *)

\* C10: whatever is picked in the two selectors, no UI action (text, text
\* file, CSV column) hands translate_text or translate_dataframe the target
\* code "auto", and no backend is attempted with it; no name the target
\* selector offers maps to "auto".
C10_TargetNeverAuto ==
    /\ \A i \in 1..Len(TargetOptions) : LANGS(TargetOptions[i]) # "auto"
    /\ pc \in {"translate", "txtfile"} => tt.tgt # "auto"
    /\ pc = "csv" =>
        /\ dfj.tgt # "auto"
        /\ tt.pc # "none" => tt.tgt # "auto"
    /\ pc \in {"translate", "txtfile", "csv"} =>
        \A i \in 1..Len(calls) : calls[i].target # "auto"

C10_Witness ==
    /\ pc = "csv"
    /\ widgets.src_lang_name = "Auto-detect"
    /\ dfj.src = "auto" /\ dfj.tgt = "ur"
    /\ tt.pc = "returned" /\ Len(calls) = 2
    /\ calls[2].source = "auto" /\ calls[2].target = "ur"

====
